---- MODULE Spec2Model ----
(***************************************************************************)
(* A model of the scheduling core of daily-tracker:                        *)
(*   daily_tracker/core/scheduler.py  (get_next_interval and               *)
(*   IndefiniteScheduler) together with the interval option of             *)
(*   daily_tracker/core/configuration.py;                                  *)
(* of the popup of a firing (daily_tracker/core/form.py); and of the       *)
(* plugins: the registries of daily_tracker/core/apis.py, task collection, *)
(* the default selection and the dispatch of an entry (_actions.py), the   *)
(* key of a plugin (utils.pascal_to_snake) and the paging of               *)
(* Jira.get_tickets_in_sprint (integrations/jira.py).                      *)
(*                                                                         *)
(* Datetimes are records with the fields of datetime.datetime; the         *)
(* calendar arithmetic behind `timedelta + datetime` is modelled the way   *)
(* CPython computes it (proleptic Gregorian ordinals).  Datetimes are      *)
(* naive and the local zone is taken to be UTC without DST, so             *)
(* datetime.timestamp() is seconds since 1970-01-01.                       *)
(***************************************************************************)
EXTENDS Integers, Sequences, FiniteSets, TLC

VARIABLES
    configuration,        \* the options of configuration.yaml, as read on each from_default()
    _interval,            \* IndefiniteScheduler._interval
    _next_schedule_time,  \* IndefiniteScheduler._next_schedule_time (Unset until assigned)
    _next_event,          \* IndefiniteScheduler._next_event (Unset, None or a sched.Event)
    _running,             \* IndefiniteScheduler._running
    queue,                \* sched.scheduler._queue of IndefiniteScheduler._scheduler
    sequence,             \* the sequence counter sched gives to each entered event
    pc,                   \* where the thread that called schedule_first is
    ctl,                  \* where a second thread calling _cancel_next is
    now,                  \* the wall clock, time.time(), in whole seconds
    calls,                \* the datetimes handed to self.action so far, in order
    lastCall,             \* the handler that ran last and the exception it raised
    from_time,            \* argument of a direct get_next_interval call
    interval_in_minutes,  \* argument of a direct get_next_interval call
    next_interval,        \* result of that call (Unset before the call)
    form,                 \* the TrackerForm of the firing being handled (None if there is none)
    entries,              \* the entries the last dispatch for that firing handed to the database consumer
    inputs,               \* Input.apis, the registry of the producers
    outputs,              \* Output.apis, the registry of the consumers
    instances,            \* the number of plugin objects created so far
    world,                \* what the outside answered during a direct call (Unset before it)
    log,                  \* the plugin methods that call invoked, in order
    returned,             \* the value that call returned
    text,                 \* argument of a direct pascal_to_snake call
    results,              \* get_tickets_in_sprint: the tickets gathered so far
    total,                \* get_tickets_in_sprint: the total last reported
    retries,              \* get_tickets_in_sprint: the batches asked for so far
    requests              \* the start_at of each search request sent to Jira, in order

vars == <<configuration, _interval, _next_schedule_time, _next_event, _running,
          queue, sequence, pc, ctl, now, calls, lastCall,
          from_time, interval_in_minutes, next_interval,
          form, entries, inputs, outputs, instances, world, log, returned,
          text, results, total, retries, requests>>

schedulerVars == <<_interval, _next_schedule_time, _next_event, _running, queue, sequence>>

pureVars == <<from_time, interval_in_minutes, next_interval>>

popupVars == <<form, entries>>

pluginVars == <<inputs, outputs, instances, world, log, returned>>

utilsVars == <<text>>

jiraVars == <<results, total, retries, requests>>

(***************************************************************************)
(* Bounds of the model.                                                    *)
(***************************************************************************)
MaxFirings == 2

MaxTicks == 1

MaxSequence == 1

MaxInstances == 3

MaxLength == 3

MaxBatch == 2

(***************************************************************************)
(* Values.                                                                 *)
(***************************************************************************)
\* an instance attribute that is annotated on the class but not yet assigned
Unset == [kind |-> "unset"]

\* Python's None
None == [kind |-> "None"]

\* an exception raised instead of a value
Raise(type) == [kind |-> "error", type |-> type]

IsError(v) == "kind" \in DOMAIN v /\ v.kind = "error"

IsDateTime(v) == "minute" \in DOMAIN v

\* Python's int % int for a non-zero divisor: the result takes the divisor's sign
PyMod(a, b) ==
    IF b > 0 THEN a % b
    ELSE -(((-b) - (a % (-b))) % (-b))

(***************************************************************************)
(* The proleptic Gregorian calendar of the datetime module.                *)
(***************************************************************************)
_DAYS_IN_MONTH == <<31, 28, 31, 30, 31, 30, 31, 31, 30, 31, 30, 31>>

_DAYS_BEFORE_MONTH == <<0, 31, 59, 90, 120, 151, 181, 212, 243, 273, 304, 334>>

_is_leap(year) == year % 4 = 0 /\ (year % 100 # 0 \/ year % 400 = 0)

_days_before_year(year) ==
    LET y == year - 1
    IN  y * 365 + (y \div 4) - (y \div 100) + (y \div 400)

_days_before_month(year, month) ==
    _DAYS_BEFORE_MONTH[month] + (IF month > 2 /\ _is_leap(year) THEN 1 ELSE 0)

_days_in_month(year, month) ==
    IF month = 2 /\ _is_leap(year) THEN 29 ELSE _DAYS_IN_MONTH[month]

_ymd2ord(year, month, day) ==
    _days_before_year(year) + _days_before_month(year, month) + day

\* ordinal -> <<year, month, day>>, the 400/100/4/1-year cycle decomposition
_ord2ymd(ordinal) ==
    LET n0   == ordinal - 1
        n400 == n0 \div 146097
        r400 == n0 % 146097
        n100 == r400 \div 36524
        r100 == r400 % 36524
        n4   == r100 \div 1461
        r4   == r100 % 1461
        n1   == r4 \div 365
        n    == r4 % 365
        year == n400 * 400 + 1 + n100 * 100 + n4 * 4 + n1
        leapyear == n1 = 3 /\ (n4 # 24 \/ n100 = 3)
        guess == (n + 50) \div 32
        before(m) == _DAYS_BEFORE_MONTH[m] + (IF m > 2 /\ leapyear THEN 1 ELSE 0)
        month == IF before(guess) > n THEN guess - 1 ELSE guess
    IN  IF n1 = 4 \/ n100 = 4
        THEN <<year - 1, 12, 31>>
        ELSE <<year, month, n - before(month) + 1>>

\* datetime.datetime(year, month, day, hour, minute, second, microsecond)
datetime(year, month, day, hour, minute, second, microsecond) ==
    IF \/ month \notin 1..12
       \/ day < 1
       \/ (month \in 1..12 /\ day > _days_in_month(year, month))
       \/ hour \notin 0..23
       \/ minute \notin 0..59
       \/ second \notin 0..59
       \/ microsecond \notin 0..999999
    THEN Raise("ValueError")
    ELSE [year |-> year, month |-> month, day |-> day, hour |-> hour,
          minute |-> minute, second |-> second, microsecond |-> microsecond]

\* datetime.timedelta(minutes=minutes) + dt
timedelta_add(minutes, dt) ==
    LET secs == dt.hour * 3600 + dt.minute * 60 + dt.second + minutes * 60
        days == _ymd2ord(dt.year, dt.month, dt.day) + (secs \div 86400)
        s    == secs % 86400
        ymd  == _ord2ymd(days)
    IN  IF days < 1 \/ days > 3652059
        THEN Raise("OverflowError")
        ELSE [year |-> ymd[1], month |-> ymd[2], day |-> ymd[3],
              hour |-> s \div 3600, minute |-> (s % 3600) \div 60,
              second |-> s % 60, microsecond |-> dt.microsecond]

\* dt.timestamp() of a naive datetime whose microsecond is 0, zone UTC
timestamp(dt) ==
    (_ymd2ord(dt.year, dt.month, dt.day) - _ymd2ord(1970, 1, 1)) * 86400
        + dt.hour * 3600 + dt.minute * 60 + dt.second

\* datetime.datetime.fromtimestamp(t) for whole seconds t, zone UTC
fromtimestamp(t) ==
    LET ymd == _ord2ymd(_ymd2ord(1970, 1, 1) + (t \div 86400))
        s   == t % 86400
    IN  [year |-> ymd[1], month |-> ymd[2], day |-> ymd[3],
         hour |-> s \div 3600, minute |-> (s % 3600) \div 60,
         second |-> s % 60, microsecond |-> 0]

(***************************************************************************)
(* scheduler.get_next_interval                                             *)
(***************************************************************************)
\* a variant that adds the interval without truncating to a multiple of it
get_next_interval_untruncated(from, interval) ==
    IF interval = 0
    THEN Raise("ZeroDivisionError")
    ELSE timedelta_add(interval,
            datetime(from.year, from.month, from.day, from.hour, from.minute, 0, 0))

\* a variant that sets the minute field instead of adding a duration
get_next_interval_no_carry(from, interval) ==
    IF interval = 0
    THEN Raise("ZeroDivisionError")
    ELSE datetime(from.year, from.month, from.day, from.hour,
                  from.minute - PyMod(from.minute, interval) + interval, 0, 0)

\* a variant that rounds up, leaving a time on a boundary where it is
get_next_interval_ceiling(from, interval) ==
    IF interval = 0
    THEN Raise("ZeroDivisionError")
    ELSE LET trunc == datetime(from.year, from.month, from.day, from.hour,
                               from.minute - PyMod(from.minute, interval), 0, 0)
         IN  IF IsError(trunc) THEN trunc
             ELSE IF trunc = from THEN trunc
             ELSE timedelta_add(interval, trunc)

get_next_interval(from, interval) ==
    IF interval = 0
    THEN Raise("ZeroDivisionError")
    ELSE LET trunc == datetime(from.year, from.month, from.day, from.hour,
                               from.minute - PyMod(from.minute, interval), 0, 0)
         IN  IF IsError(trunc) THEN trunc
             ELSE timedelta_add(interval, trunc)

(***************************************************************************)
(* Configuration.interval and its re-reading                               *)
(***************************************************************************)
\* Configuration.interval: the option, or the default False (the integer 0)
\* when the options have no interval
Configuration_interval(config) ==
    IF config.has_interval THEN config.interval ELSE 0

\* the file is opened and parsed on every call, so the current content is read
_get_interval_from_configuration == Configuration_interval(configuration)

(***************************************************************************)
(* sched.scheduler as IndefiniteScheduler uses it                          *)
(***************************************************************************)
\* sched.Event(time, priority, sequence, ...)
Event(time, priority, seq) ==
    [kind |-> "event", time |-> time, priority |-> priority, sequence |-> seq]

\* events compare as tuples (time, priority, sequence)
EventBefore(a, b) ==
    \/ a.time < b.time
    \/ a.time = b.time /\ a.priority < b.priority
    \/ a.time = b.time /\ a.priority = b.priority /\ a.sequence < b.sequence

\* the head of the heap
FirstEvent(q) == CHOOSE e \in q : \A f \in q \ {e} : EventBefore(e, f)

Max(a, b) == IF a >= b THEN a ELSE b

NoException == "none"

Called(op, raised) == [op |-> op, raised |-> raised]

(***************************************************************************)
(* Plugins: the registries Input.apis and Output.apis                      *)
(* (daily_tracker/core/apis.py), the producers and consumers of the        *)
(* repository, task collection and the dispatch of an entry.               *)
(***************************************************************************)
\* the plugin classes: those instantiated at start-up
\* (main.configure_integrations) and Outlook, the calendar that can be linked
PluginClasses == {"Database", "NoCalendar", "Jira", "Slack", "Outlook"}

\* the bases of a class, of cls.__bases__, that are subclasses of API
\* (Calendar, the first base of NoCalendar and of Outlook, is not)
Bases(cls) ==
    CASE cls = "Database" -> <<"Input", "Output">>
      [] cls = "NoCalendar" -> <<"Input", "Output">>
      [] cls = "Jira" -> <<"Input", "Output">>
      [] cls = "Slack" -> <<"Output">>
      [] cls = "Outlook" -> <<"Input">>
      [] cls = "DatabaseHandler" -> <<"Input", "Output">>

\* str.isupper and str.lower on one ASCII character
UpperCase ==
    <<"A", "B", "C", "D", "E", "F", "G", "H", "I", "J", "K", "L", "M",
      "N", "O", "P", "Q", "R", "S", "T", "U", "V", "W", "X", "Y", "Z">>

LowerCase ==
    <<"a", "b", "c", "d", "e", "f", "g", "h", "i", "j", "k", "l", "m",
      "n", "o", "p", "q", "r", "s", "t", "u", "v", "w", "x", "y", "z">>

isupper(letter) == \E i \in DOMAIN UpperCase : UpperCase[i] = letter

lower(letter) ==
    IF isupper(letter)
    THEN LowerCase[CHOOSE i \in DOMAIN UpperCase : UpperCase[i] = letter]
    ELSE letter

\* "".join(parts)
RECURSIVE join(_)
join(parts) ==
    IF parts = <<>> THEN <<>> ELSE Head(parts) \o join(Tail(parts))

\* str.lstrip("_") and str.rstrip("_")
RECURSIVE lstrip(_)
lstrip(string) ==
    IF string # <<>> /\ Head(string) = "_" THEN lstrip(Tail(string)) ELSE string

RECURSIVE rstrip(_)
rstrip(string) ==
    IF string # <<>> /\ string[Len(string)] = "_"
    THEN rstrip(SubSeq(string, 1, Len(string) - 1))
    ELSE string

\* str.strip("_")
strip(string) == rstrip(lstrip(string))

\* a variant that strips the underscores at the front only
pascal_to_snake_lstripped(string) ==
    lstrip(join([i \in DOMAIN string |->
                    IF isupper(string[i]) THEN <<"_", lower(string[i])>>
                    ELSE <<string[i]>>]))

\* utils.pascal_to_snake; a string is the sequence of its characters
pascal_to_snake(string) ==
    strip(join([i \in DOMAIN string |->
                    IF isupper(string[i]) THEN <<"_", lower(string[i])>>
                    ELSE <<string[i]>>]))

\* the characters of the class names and of the keys of the registries
Characters(word) ==
    CASE word = "Database" ->
            <<"D", "a", "t", "a", "b", "a", "s", "e">>
      [] word = "NoCalendar" ->
            <<"N", "o", "C", "a", "l", "e", "n", "d", "a", "r">>
      [] word = "Jira" ->
            <<"J", "i", "r", "a">>
      [] word = "Slack" ->
            <<"S", "l", "a", "c", "k">>
      [] word = "Outlook" ->
            <<"O", "u", "t", "l", "o", "o", "k">>
      [] word = "DatabaseHandler" ->
            <<"D", "a", "t", "a", "b", "a", "s", "e", "H", "a", "n", "d", "l", "e", "r">>
      [] word = "database" ->
            <<"d", "a", "t", "a", "b", "a", "s", "e">>
      [] word = "no_calendar" ->
            <<"n", "o", "_", "c", "a", "l", "e", "n", "d", "a", "r">>
      [] word = "jira" ->
            <<"j", "i", "r", "a">>
      [] word = "slack" ->
            <<"s", "l", "a", "c", "k">>
      [] word = "outlook" ->
            <<"o", "u", "t", "l", "o", "o", "k">>
      [] word = "database_handler" ->
            <<"d", "a", "t", "a", "b", "a", "s", "e", "_", "h", "a", "n", "d", "l", "e", "r">>
      [] word = "calendar" ->
            <<"c", "a", "l", "e", "n", "d", "a", "r">>

Words == {"Database", "NoCalendar", "Jira", "Slack",
          "Outlook", "DatabaseHandler", "database", "no_calendar",
          "jira", "slack", "outlook", "database_handler", "calendar"}

\* the key of API.__new__: utils.pascal_to_snake(cls.__name__)
Key(cls) ==
    CHOOSE word \in Words : Characters(word) = pascal_to_snake(Characters(cls))

\* A dict is a sequence of items in insertion order.
Items(dict) == {dict[i] : i \in DOMAIN dict}

Keys(dict) == {item.key : item \in Items(dict)}

\* dict[key] = value: a key already present keeps its position
SetItem(dict, key, value) ==
    IF key \in Keys(dict)
    THEN [i \in DOMAIN dict |->
            IF dict[i].key = key THEN [key |-> key, value |-> value] ELSE dict[i]]
    ELSE Append(dict, [key |-> key, value |-> value])

\* dict.get(key)
Get(dict, key) ==
    IF key \in Keys(dict)
    THEN (CHOOSE item \in Items(dict) : item.key = key).value
    ELSE None

\* the n-th object created, of class cls
Instance(cls, n) == [kind |-> "instance", cls |-> cls, id |-> n]

\* a variant that binds the new instance in the apis of Input and of Output
\* alike, whatever the bases of its class
Bound_in_every_registry(apis, base, instance) ==
    SetItem(apis, Key(instance.cls), instance)

\* API.__new__: bind the new instance, under the snake-case name of its
\* class, in the apis of every base that is a subclass of API
Bound(apis, base, instance) ==
    IF \E i \in DOMAIN Bases(instance.cls) : Bases(instance.cls)[i] = base
    THEN SetItem(apis, Key(instance.cls), instance)
    ELSE apis

\* the registry of one base after the classes have been instantiated in turn
RECURSIVE Instantiated(_, _)
Instantiated(classes, base) ==
    IF classes = <<>>
    THEN <<>>
    ELSE Bound(Instantiated(SubSeq(classes, 1, Len(classes) - 1), base),
               base, Instance(classes[Len(classes)], Len(classes)))

\* the objects created at start-up: the linked calendar when
\* integrations.calendars is imported, then those of configure_integrations
StartUp == <<"NoCalendar", "Database", "NoCalendar", "Jira", "Slack">>

\* Input.apis and Output.apis once start-up is over
StartUpInputs == Instantiated(StartUp, "Input")

StartUpOutputs == Instantiated(StartUp, "Output")

\* the dataclasses Task and Entry
Task(task_name, details, priority, is_default) ==
    [task_name |-> task_name, details |-> details,
     priority |-> priority, is_default |-> is_default]

Entry(date_time, task_name, detail, interval) ==
    [date_time |-> date_time, task_name |-> task_name,
     detail |-> detail, interval |-> interval]

\* TrackerForm.__init__ and generate_form: the popup is open
TrackerForm(at_datetime, interval) ==
    [kind |-> "form", at_datetime |-> at_datetime, interval |-> interval,
     open |-> TRUE]

\* what the user typed in the two text boxes of the popup
FormTask == "task"

FormDetail == "detail"

\* the answers of the Slack webhook
HTTPStatuses == {200, 500}

\* post_event of one consumer: the exception it raises, if any.
\* Slack.post_event posts to the webhook, and SlackConnector.post_message
\* raises RuntimeError unless the answer is 200 OK.
post_event(handler, entry, status_code) ==
    IF handler.cls = "Slack" /\ status_code # 200
    THEN "RuntimeError"
    ELSE NoException

\* hasattr(handler, "ok_actions"): no plugin class defines ok_actions
has_ok_actions(handler) == FALSE

\* one invocation of a consumer, as recorded in the log of a dispatch
Invocation(handler, method, argument) ==
    [handler |-> handler, method |-> method, argument |-> argument]

\* the for loop of a dispatch from the i-th handler on: an exception of a
\* handler leaves the loop.  With legacy set, a handler that has ok_actions
\* is given the form instead of the entry.
RECURSIVE post_each(_, _, _, _, _, _, _)
post_each(handlers, i, entry, legacy, form_, status_code, log_) ==
    IF i > Len(handlers)
    THEN [raised |-> NoException, log |-> log_]
    ELSE LET handler == handlers[i]
             invocation == IF legacy /\ has_ok_actions(handler)
                           THEN Invocation(handler, "ok_actions", form_)
                           ELSE Invocation(handler, "post_event", entry)
             raised == post_event(handler, entry, status_code)
         IN  IF raised # NoException
             THEN [raised |-> raised, log |-> Append(log_, invocation)]
             ELSE post_each(handlers, i + 1, entry, legacy, form_, status_code,
                            Append(log_, invocation))

\* the values of a dict, in insertion order
Values(dict) == [i \in DOMAIN dict |-> dict[i].value]

\* ActionHandler.ok_actions: the database handler first, then the others in
\* the order of the registry, each given an entry built from the form
ok_actions(apis, form_, status_code) ==
    IF "database" \notin Keys(apis)
    THEN [raised |-> "KeyError", log |-> <<>>]
    ELSE LET others == SelectSeq(apis, LAMBDA item : item.key # "database")
             outputs_ == <<Get(apis, "database")>> \o Values(others)
             entry == Entry(form_.at_datetime, FormTask, FormDetail,
                            form_.interval)
         IN  post_each(outputs_, 1, entry, TRUE, form_, status_code, <<>>)

\* Output.post_events: every handler of the registry, in its order
post_events(apis, entry, status_code) ==
    post_each(Values(apis), 1, entry, FALSE, None, status_code, <<>>)

\* the entries a dispatch handed to the database consumer
DatabaseEntries(log_) ==
    LET written == SelectSeq(log_, LAMBDA invocation :
                                    /\ invocation.handler.cls = "Database"
                                    /\ invocation.method = "post_event")
    IN  [i \in DOMAIN written |-> written[i].argument]

\* The rows of the tracker table as a producer sees them at date_time: the
\* last row at or before date_time (None if there is none) and the recent
\* tasks with their default flags.
Row(task, detail) == [kind |-> "row", task |-> task, detail |-> detail]

LastRows == {None, Row("A", "a")}

RecentTasks ==
    { <<>>,
      <<[task |-> "A", default_flag |-> FALSE],
        [task |-> "B", default_flag |-> TRUE]>> }

\* what Jira.get_tickets_in_sprint gives: the tickets, or the exception of a
\* failed request
Returned(value) == [raised |-> NoException, returned |-> value]

Raised(type) == [raised |-> type, returned |-> <<>>]

SprintTickets == {Returned(<<>>), Returned(<<"B", "C">>), Raised("ConnectionError")}

\* a variant that gives the last task the default priority
Database_on_event_default_priority(last_row, recent_tasks) ==
    IF last_row = None
    THEN Raised("TypeError")
    ELSE Returned(<<Task(last_row.task, <<last_row.detail>>, 1, FALSE)>>
                    \o [i \in DOMAIN recent_tasks |->
                            Task(recent_tasks[i].task, <<>>, 1,
                                 recent_tasks[i].default_flag)])

\* Database.on_event: the last task with priority 0, then the recent tasks
\* (None is not subscriptable)
Database_on_event(last_row, recent_tasks) ==
    IF last_row = None
    THEN Raised("TypeError")
    ELSE Returned(<<Task(last_row.task, <<last_row.detail>>, 0, FALSE)>>
                    \o [i \in DOMAIN recent_tasks |->
                            Task(recent_tasks[i].task, <<>>, 1,
                                 recent_tasks[i].default_flag)])

\* Jira.on_event: one task per ticket of the sprint
Jira_on_event(tickets) ==
    IF tickets.raised # NoException
    THEN tickets
    ELSE Returned([i \in DOMAIN tickets.returned |->
                        Task(tickets.returned[i], <<>>, 1, FALSE)])

\* _filter_appointments: drop the all-day events and those of an excluded
\* category
_filter_appointments(events) ==
    SelectSeq(events, LAMBDA event : ~event.all_day_event /\ ~event.excluded)

\* Calendar.on_event: one task "Meetings" whose details are the subjects of
\* the appointments left, or no task when none is left
Calendar_on_event(appointments) ==
    LET events == _filter_appointments(appointments)
    IN  IF events # <<>>
        THEN Returned(<<Task("Meetings",
                             [i \in DOMAIN events |-> events[i].subject],
                             1, FALSE)>>)
        ELSE Returned(<<>>)

\* on_event of one producer (NoCalendar has no appointments)
on_event(handler, date_time, rows) ==
    CASE handler.cls = "Database" ->
            Database_on_event(rows.last_row, rows.recent_tasks)
      [] handler.cls = "Jira" -> Jira_on_event(rows.tickets)
      [] handler.cls = "NoCalendar" -> Returned(<<>>)
      [] handler.cls = "Outlook" -> Calendar_on_event(rows.appointments)

\* itertools.chain.from_iterable
RECURSIVE chain(_)
chain(lists) ==
    IF lists = <<>> THEN <<>> ELSE Head(lists) \o chain(Tail(lists))

\* the list comprehension of on_events from the i-th producer on: an
\* exception of a producer leaves it
RECURSIVE on_each(_, _, _, _, _, _)
on_each(apis, i, date_time, rows, called, lists) ==
    IF i > Len(apis)
    THEN [raised |-> NoException, log |-> called, returned |-> chain(lists)]
    ELSE LET tasks == on_event(apis[i].value, date_time, rows)
             invocation == Invocation(apis[i].value, "on_event", date_time)
         IN  IF tasks.raised # NoException
             THEN [raised |-> tasks.raised,
                   log |-> Append(called, invocation),
                   returned |-> <<>>]
             ELSE on_each(apis, i + 1, date_time, rows,
                          Append(called, invocation),
                          Append(lists, tasks.returned))

\* a variant that chains the lists of the producers in reverse order
on_events_reversed(apis, date_time, rows) ==
    LET r == on_each(apis, 1, date_time, rows, <<>>, <<>>)
    IN  IF r.raised # NoException THEN r
        ELSE [r EXCEPT !.returned =
                chain([i \in DOMAIN apis |->
                        on_event(apis[Len(apis) + 1 - i].value,
                                 date_time, rows).returned])]

\* Input.on_events
on_events(apis, date_time, rows) ==
    on_each(apis, 1, date_time, rows, <<>>, <<>>)

\* an appointment of the linked calendar that covers the time asked for
CalendarEvent(subject, all_day_event, excluded) ==
    [subject |-> subject, all_day_event |-> all_day_event,
     excluded |-> excluded]

\* what get_appointments_at_datetime gives; excluded says that a category of
\* the appointment is among appointment_category_exclusions
Appointments ==
    { <<>>,
      <<CalendarEvent("stand-up", FALSE, FALSE)>>,
      <<CalendarEvent("stand-up", FALSE, FALSE),
        CalendarEvent("holiday", TRUE, FALSE)>> }

\* bool(handler): dict.get gives None for a missing key, and NoCalendar
\* defines __bool__ as False
Truthy(handler) == handler # None /\ handler.cls # "NoCalendar"

\* ActionHandler.get_default_task_and_detail
get_default_task_and_detail(inputs_, outputs_, at_datetime, rows) ==
    LET calendar_handler == Get(inputs_, "calendar")
        current_meetings ==
            IF Truthy(calendar_handler) /\ rows.use_calendar_appointments
            THEN SelectSeq(rows.appointments,
                           LAMBDA meeting : /\ ~meeting.all_day_event
                                            /\ ~meeting.excluded)
            ELSE <<>>
    IN  IF "database" \notin Keys(outputs_)
        THEN Raised("KeyError")
        ELSE IF Len(current_meetings) # 1
        THEN IF rows.last_row = None
             THEN Returned(<<"", "">>)
             ELSE Returned(<<rows.last_row.task, rows.last_row.detail>>)
        ELSE Returned(<<"Meetings", current_meetings[1].subject>>)

\* what the outside answers during one call
World(last_row, recent_tasks, tickets, status_code, use_calendar_appointments, appointments) ==
    [last_row |-> last_row, recent_tasks |-> recent_tasks,
     tickets |-> tickets, status_code |-> status_code,
     use_calendar_appointments |-> use_calendar_appointments,
     appointments |-> appointments]

(***************************************************************************)
(* Jira.get_tickets_in_sprint                                              *)
(***************************************************************************)
\* total = 999, before the first batch
InitialTotal == 999

\* the total of the batch that stands for a failed request
FailedTotal == 1000

\* while ... and retries < 5
MaxRetries == 5

\* an issue of the search result, and the ticket made of it:
\* f"{issue['key']} {issue['fields']['summary']}"
Issue(key, summary) == [key |-> key, summary |-> summary]

Ticket(issue) == <<issue.key, " ", issue.summary>>

\* what one search request meets: an exception of requests.request, or a
\* body; a body is JSON or not, and a JSON body has a total or (an error
\* message) has none
Response(exception, is_json, has_total, total_, issues) ==
    [exception |-> exception, is_json |-> is_json, has_total |-> has_total,
     total |-> total_, issues |-> issues]

\* the issues number start_at + 1 .. start_at + n of the search
IssuesFrom(start_at, n) == [i \in 1..n |-> Issue(start_at + i, "summary")]

\* the answers to a request for the batch at start_at: batches of at most
\* MaxBatch issues under a total that is reached, not reached or 0, a JSON
\* body with no total, a body that is not JSON, and requests that raise
Responses(start_at) ==
    {Response(NoException, TRUE, TRUE, total_, IssuesFrom(start_at, n)) :
            total_ \in {0, MaxBatch + 1, FailedTotal}, n \in 0..MaxBatch}
        \cup {Response(NoException, TRUE, FALSE, 0, <<>>),
              Response(NoException, FALSE, FALSE, 0, <<>>),
              Response("requests.exceptions.ProxyError", FALSE, FALSE, 0, <<>>),
              Response("requests.exceptions.ConnectionError", FALSE, FALSE, 0, <<>>)}

\* the exceptions named by the except clause of get_batch_of_tickets.
\* json.loads raises json.JSONDecodeError, of which
\* requests.exceptions.JSONDecodeError is a subclass: the clause does not
\* catch it.
Caught(exception) ==
    exception \in {"requests.exceptions.JSONDecodeError",
                   "requests.exceptions.ProxyError"}

\* get_batch_of_tickets(start_at), given what the request meets: the dict
\* returned, or the exception that leaves the function
get_batch_of_tickets(response) ==
    LET raised == IF response.exception # NoException THEN response.exception
                  ELSE IF ~response.is_json THEN "json.JSONDecodeError"
                  ELSE NoException
    IN  IF raised = NoException
        THEN [raised |-> NoException, has_total |-> response.has_total,
              total |-> response.total, issues |-> response.issues]
        ELSE IF Caught(raised)
        THEN [raised |-> NoException, has_total |-> TRUE,
              total |-> FailedTotal, issues |-> <<>>]
        ELSE [raised |-> raised, has_total |-> FALSE,
              total |-> 0, issues |-> <<>>]

(***************************************************************************)
(* IndefiniteScheduler                                                     *)
(***************************************************************************)
\* __init__: the state of a scheduler constructed under configuration config
Constructed(config) ==
    /\ configuration = config
    /\ _interval = Configuration_interval(config)
    /\ _running = FALSE
    /\ _next_schedule_time = Unset
    /\ _next_event = Unset
    /\ queue = {}
    /\ sequence = 0

\* a variant that derives the next time from the wall clock
_schedule_next_from_wall_clock(running, current, interval) ==
    IF ~running
    THEN [raised |-> "AssertionError", time |-> current, event |-> _next_event,
          queue |-> queue, sequence |-> sequence]
    ELSE LET t == get_next_interval(fromtimestamp(now), interval)
         IN  IF IsError(t)
             THEN [raised |-> t.type, time |-> current, event |-> _next_event,
                   queue |-> queue, sequence |-> sequence]
             ELSE LET e == Event(timestamp(t), 1, sequence)
                  IN  [raised |-> NoException, time |-> t, event |-> e,
                       queue |-> queue \cup {e}, sequence |-> sequence + 1]

\* _schedule_next followed by _schedule(cancel=False), entered with
\* self._running = running, self._next_schedule_time = current and
\* self._interval = interval; the values the attributes have afterwards
_schedule_next(running, current, interval) ==
    IF ~running
    THEN [raised |-> "AssertionError", time |-> current, event |-> _next_event,
          queue |-> queue, sequence |-> sequence]
    ELSE LET t == get_next_interval(current, interval)
         IN  IF IsError(t)
             THEN [raised |-> t.type, time |-> current, event |-> _next_event,
                   queue |-> queue, sequence |-> sequence]
             ELSE LET e == Event(timestamp(t), 1, sequence)
                  IN  [raised |-> NoException, time |-> t, event |-> e,
                       queue |-> queue \cup {e}, sequence |-> sequence + 1]

\* a variant without the assertion that the scheduler is not running
schedule_first_unguarded(schedule_at) ==
    /\ pc = "idle" \/ _running
    /\ sequence < MaxSequence
    /\ LET r == _schedule_next(TRUE, schedule_at, _interval)
       IN  /\ _running' = TRUE
           /\ _next_schedule_time' = r.time
           /\ _next_event' = r.event
           /\ queue' = r.queue
           /\ sequence' = r.sequence
           /\ pc' = IF r.raised = NoException /\ pc = "idle" THEN "run" ELSE pc
           /\ lastCall' = Called("schedule_first", r.raised)
    /\ UNCHANGED <<configuration, _interval, ctl, now, calls>>
    /\ UNCHANGED pureVars
    /\ UNCHANGED utilsVars
    /\ UNCHANGED jiraVars
    /\ UNCHANGED pluginVars
    /\ UNCHANGED popupVars

\* the step of the wall clock, and the instant the clock of the model starts at
TickSeconds == 30 * 60

StartOfClock == timestamp(datetime(2020, 1, 1, 0, 0, 0, 0))

\* schedule_first(schedule_at) up to the point where it blocks in run().
\* While the scheduler is running any thread may call it (the assertion fails);
\* otherwise it is the main thread that calls it, when it is not inside run().
schedule_first(schedule_at) ==
    \/ /\ _running
       /\ lastCall' = Called("schedule_first", "AssertionError")
       /\ UNCHANGED <<configuration, ctl, now, calls, pc>>
       /\ UNCHANGED schedulerVars
       /\ UNCHANGED pureVars
       /\ UNCHANGED utilsVars
       /\ UNCHANGED jiraVars
       /\ UNCHANGED pluginVars
       /\ UNCHANGED popupVars
    \/ /\ ~_running
       /\ pc = "idle"
       /\ sequence < MaxSequence
       /\ LET r == _schedule_next(TRUE, schedule_at, _interval)
          IN  /\ _running' = TRUE
              /\ _next_schedule_time' = r.time
              /\ _next_event' = r.event
              /\ queue' = r.queue
              /\ sequence' = r.sequence
              /\ pc' = IF r.raised = NoException THEN "run" ELSE "idle"
              /\ lastCall' = Called("schedule_first", r.raised)
       /\ UNCHANGED <<configuration, _interval, ctl, now, calls>>
       /\ UNCHANGED pureVars
       /\ UNCHANGED utilsVars
       /\ UNCHANGED jiraVars
       /\ UNCHANGED pluginVars
       /\ UNCHANGED popupVars

\* The default of schedule_at, datetime.datetime.now(), is evaluated once, when
\* the def statement runs as the module is loaded; the clock of the model
\* starts at that instant.
DefaultScheduleAt == fromtimestamp(StartOfClock)

\* schedule_first(), as main() calls it: schedule_at takes its default
schedule_first_default ==
    \/ /\ _running
       /\ lastCall' = Called("schedule_first_default", "AssertionError")
       /\ UNCHANGED <<configuration, ctl, now, calls, pc>>
       /\ UNCHANGED schedulerVars
       /\ UNCHANGED pureVars
       /\ UNCHANGED utilsVars
       /\ UNCHANGED jiraVars
       /\ UNCHANGED pluginVars
       /\ UNCHANGED popupVars
    \/ /\ ~_running
       /\ pc = "idle"
       /\ sequence < MaxSequence
       /\ LET r == _schedule_next(TRUE, DefaultScheduleAt, _interval)
          IN  /\ _running' = TRUE
              /\ _next_schedule_time' = r.time
              /\ _next_event' = r.event
              /\ queue' = r.queue
              /\ sequence' = r.sequence
              /\ pc' = IF r.raised = NoException THEN "run" ELSE "idle"
              /\ lastCall' = Called("schedule_first_default", r.raised)
       /\ UNCHANGED <<configuration, _interval, ctl, now, calls>>
       /\ UNCHANGED pureVars
       /\ UNCHANGED utilsVars
       /\ UNCHANGED jiraVars
       /\ UNCHANGED pluginVars
       /\ UNCHANGED popupVars

\* a variant that leaves the event in the queue while the action runs
RunFire_keeps_event ==
    /\ pc = "run"
    /\ queue # {}
    /\ Len(calls) < MaxFirings
    /\ LET e == FirstEvent(queue)
       IN  /\ now' = Max(now, e.time)
           /\ queue' = queue
    /\ calls' = Append(calls, _next_schedule_time)
    /\ form' = TrackerForm(_next_schedule_time, Configuration_interval(configuration))
    /\ pc' = "action"
    /\ lastCall' = Called("run", NoException)
    /\ UNCHANGED entries
    /\ UNCHANGED <<configuration, _interval, _next_schedule_time, _next_event,
                   _running, sequence, ctl>>
    /\ UNCHANGED pureVars
    /\ UNCHANGED utilsVars
    /\ UNCHANGED jiraVars
    /\ UNCHANGED pluginVars

\* sched.scheduler.run(): the head event is due (after sleeping until its
\* time if need be); it is popped and _action_wrapper calls
\* self.action(self._next_schedule_time), which is main.create_form: the
\* ActionHandler reads the configuration and opens the popup
RunFire ==
    /\ pc = "run"
    /\ queue # {}
    /\ Len(calls) < MaxFirings
    /\ LET e == FirstEvent(queue)
       IN  /\ now' = Max(now, e.time)
           /\ queue' = queue \ {e}
    /\ calls' = Append(calls, _next_schedule_time)
    /\ form' = TrackerForm(_next_schedule_time, Configuration_interval(configuration))
    /\ pc' = "action"
    /\ lastCall' = Called("run", NoException)
    /\ UNCHANGED entries
    /\ UNCHANGED <<configuration, _interval, _next_schedule_time, _next_event,
                   _running, sequence, ctl>>
    /\ UNCHANGED pureVars
    /\ UNCHANGED utilsVars
    /\ UNCHANGED jiraVars
    /\ UNCHANGED pluginVars

\* a variant that keeps the interval read earlier
ActionReturn_no_reread ==
    /\ pc = "action"
    /\ ~form.open
    /\ form' = None
    /\ entries' = <<>>
    /\ _interval' = _interval
    /\ LET r == _schedule_next(_running, _next_schedule_time, _interval')
       IN  /\ _next_schedule_time' = r.time
           /\ _next_event' = r.event
           /\ queue' = r.queue
           /\ sequence' = r.sequence
           /\ pc' = IF r.raised = NoException THEN "run" ELSE "idle"
           /\ lastCall' = Called("_action_wrapper", r.raised)
    /\ UNCHANGED <<configuration, _running, ctl, now, calls>>
    /\ UNCHANGED pureVars
    /\ UNCHANGED utilsVars
    /\ UNCHANGED jiraVars
    /\ UNCHANGED pluginVars

\* a variant that stamps the entry with the time of the confirmation
TrackerForm_action_wrapper_at_wall_clock ==
    /\ pc = "action"
    /\ form.open
    /\ \E status_code \in HTTPStatuses :
        LET r == ok_actions(outputs,
                            [form EXCEPT !.at_datetime = fromtimestamp(now)],
                            status_code)
        IN  /\ entries' = DatabaseEntries(r.log)
            /\ form' = IF r.raised = NoException
                       THEN [form EXCEPT !.open = FALSE]
                       ELSE form
            /\ lastCall' = Called("action_wrapper", r.raised)
    /\ UNCHANGED <<configuration, pc, ctl, now, calls>>
    /\ UNCHANGED schedulerVars
    /\ UNCHANGED pureVars
    /\ UNCHANGED utilsVars
    /\ UNCHANGED jiraVars
    /\ UNCHANGED pluginVars

\* TrackerForm.action_wrapper, the command of the OK button: dispatch the
\* entry, then close the form.  An exception of the dispatch leaves the
\* callback before close_form (Tk reports it and the popup stays open).
TrackerForm_action_wrapper ==
    /\ pc = "action"
    /\ form.open
    /\ \E status_code \in HTTPStatuses :
        LET r == ok_actions(outputs, form, status_code)
        IN  /\ entries' = DatabaseEntries(r.log)
            /\ form' = IF r.raised = NoException
                       THEN [form EXCEPT !.open = FALSE]
                       ELSE form
            /\ lastCall' = Called("action_wrapper", r.raised)
    /\ UNCHANGED <<configuration, pc, ctl, now, calls>>
    /\ UNCHANGED schedulerVars
    /\ UNCHANGED pureVars
    /\ UNCHANGED utilsVars
    /\ UNCHANGED jiraVars
    /\ UNCHANGED pluginVars

\* a variant of the Cancel button that dispatches the entry before closing
TrackerForm_close_form_dispatching ==
    /\ pc = "action"
    /\ form.open
    /\ form' = [form EXCEPT !.open = FALSE]
    /\ entries' = DatabaseEntries(ok_actions(outputs, form, 200).log)
    /\ lastCall' = Called("close_form", NoException)
    /\ UNCHANGED <<configuration, pc, ctl, now, calls>>
    /\ UNCHANGED schedulerVars
    /\ UNCHANGED pureVars
    /\ UNCHANGED utilsVars
    /\ UNCHANGED jiraVars
    /\ UNCHANGED pluginVars

\* TrackerForm.close_form, the command of the Cancel button
TrackerForm_close_form ==
    /\ pc = "action"
    /\ form.open
    /\ form' = [form EXCEPT !.open = FALSE]
    /\ lastCall' = Called("close_form", NoException)
    /\ UNCHANGED <<configuration, pc, ctl, now, calls, entries>>
    /\ UNCHANGED schedulerVars
    /\ UNCHANGED pureVars
    /\ UNCHANGED utilsVars
    /\ UNCHANGED jiraVars
    /\ UNCHANGED pluginVars

\* _action_wrapper after self.action returned normally (the popup has been
\* closed and mainloop has ended): re-read the interval
\* and schedule the next event; an exception leaves run() and schedule_first
ActionReturn ==
    /\ pc = "action"
    /\ ~form.open
    /\ form' = None
    /\ entries' = <<>>
    /\ _interval' = _get_interval_from_configuration
    /\ LET r == _schedule_next(_running, _next_schedule_time, _interval')
       IN  /\ _next_schedule_time' = r.time
           /\ _next_event' = r.event
           /\ queue' = r.queue
           /\ sequence' = r.sequence
           /\ pc' = IF r.raised = NoException THEN "run" ELSE "idle"
           /\ lastCall' = Called("_action_wrapper", r.raised)
    /\ UNCHANGED <<configuration, _running, ctl, now, calls>>
    /\ UNCHANGED pureVars
    /\ UNCHANGED utilsVars
    /\ UNCHANGED jiraVars
    /\ UNCHANGED pluginVars

\* a variant that catches the exception of the action and re-arms
ActionRaise_swallowed ==
    /\ pc = "action"
    /\ ~form.open
    /\ form' = None
    /\ entries' = <<>>
    /\ _interval' = _get_interval_from_configuration
    /\ LET r == _schedule_next(_running, _next_schedule_time, _interval')
       IN  /\ _next_schedule_time' = r.time
           /\ _next_event' = r.event
           /\ queue' = r.queue
           /\ sequence' = r.sequence
           /\ pc' = IF r.raised = NoException THEN "run" ELSE "idle"
    /\ lastCall' = Called("action", "Exception")
    /\ UNCHANGED <<configuration, _running, ctl, now, calls>>
    /\ UNCHANGED pureVars
    /\ UNCHANGED utilsVars
    /\ UNCHANGED jiraVars
    /\ UNCHANGED pluginVars

\* self.action raises: nothing in _action_wrapper, run() or schedule_first
\* catches it, so it leaves schedule_first
ActionRaise ==
    /\ pc = "action"
    /\ pc' = "idle"
    /\ form' = None
    /\ entries' = <<>>
    /\ lastCall' = Called("action", "Exception")
    /\ UNCHANGED <<configuration, ctl, now, calls>>
    /\ UNCHANGED schedulerVars
    /\ UNCHANGED pureVars
    /\ UNCHANGED utilsVars
    /\ UNCHANGED jiraVars
    /\ UNCHANGED pluginVars

\* sched.scheduler.run() finds the queue empty and returns, and with it
\* schedule_first
RunExit ==
    /\ pc = "run"
    /\ queue = {}
    /\ pc' = "idle"
    /\ lastCall' = Called("run", NoException)
    /\ UNCHANGED <<configuration, ctl, now, calls>>
    /\ UNCHANGED schedulerVars
    /\ UNCHANGED pureVars
    /\ UNCHANGED utilsVars
    /\ UNCHANGED jiraVars
    /\ UNCHANGED pluginVars
    /\ UNCHANGED popupVars

\* a variant that marks the scheduler stopped but leaves the event queued
_cancel_next_keeps_event ==
    /\ ctl = "none"
    /\ IF _next_event = Unset
       THEN /\ lastCall' = Called("_cancel_next", "AttributeError")
            /\ UNCHANGED <<ctl, _next_event, queue>>
       ELSE IF _next_event \notin queue
       THEN /\ lastCall' = Called("_cancel_next", "ValueError")
            /\ UNCHANGED <<ctl, _next_event, queue>>
       ELSE /\ queue' = queue
            /\ _next_event' = None
            /\ ctl' = "cancelling"
            /\ lastCall' = Called("_cancel_next", NoException)
    /\ UNCHANGED <<configuration, _interval, _next_schedule_time, _running,
                   sequence, pc, now, calls>>
    /\ UNCHANGED pureVars
    /\ UNCHANGED utilsVars
    /\ UNCHANGED jiraVars
    /\ UNCHANGED pluginVars
    /\ UNCHANGED popupVars

\* _cancel_next, called from a second thread: _schedule(cancel=True).
\* Reading an attribute that was never assigned raises AttributeError;
\* sched.scheduler.cancel removes the event from the queue under the
\* scheduler's lock and raises ValueError when it is not there.
_cancel_next ==
    /\ ctl = "none"
    /\ IF _next_event = Unset
       THEN /\ lastCall' = Called("_cancel_next", "AttributeError")
            /\ UNCHANGED <<ctl, _next_event, queue>>
       ELSE IF _next_event \notin queue
       THEN /\ lastCall' = Called("_cancel_next", "ValueError")
            /\ UNCHANGED <<ctl, _next_event, queue>>
       ELSE /\ queue' = queue \ {_next_event}
            /\ _next_event' = None
            /\ ctl' = "cancelling"
            /\ lastCall' = Called("_cancel_next", NoException)
    /\ UNCHANGED <<configuration, _interval, _next_schedule_time, _running,
                   sequence, pc, now, calls>>
    /\ UNCHANGED pureVars
    /\ UNCHANGED utilsVars
    /\ UNCHANGED jiraVars
    /\ UNCHANGED pluginVars
    /\ UNCHANGED popupVars

\* _cancel_next, its last statement: self._running = False
_cancel_next_finish ==
    /\ ctl = "cancelling"
    /\ _running' = FALSE
    /\ ctl' = "none"
    /\ lastCall' = Called("_cancel_next", NoException)
    /\ UNCHANGED <<configuration, _interval, _next_schedule_time, _next_event,
                   queue, sequence, pc, now, calls>>
    /\ UNCHANGED pureVars
    /\ UNCHANGED utilsVars
    /\ UNCHANGED jiraVars
    /\ UNCHANGED pluginVars
    /\ UNCHANGED popupVars

(***************************************************************************)
(* The environment: the wall clock and edits of configuration.yaml         *)
(***************************************************************************)
Tick ==
    /\ now < StartOfClock + MaxTicks * TickSeconds
    /\ now' = now + TickSeconds
    /\ lastCall' = Called("tick", NoException)
    /\ UNCHANGED <<configuration, pc, ctl, calls>>
    /\ UNCHANGED schedulerVars
    /\ UNCHANGED pureVars
    /\ UNCHANGED utilsVars
    /\ UNCHANGED jiraVars
    /\ UNCHANGED pluginVars
    /\ UNCHANGED popupVars

\* the interval options a configuration file may hold: valid ones (dividing
\* 60 or not), zero, a negative one, and none at all
Configurations ==
    {[has_interval |-> TRUE, interval |-> i] : i \in {15, 1, 45, 0, -5}}
        \cup {[has_interval |-> FALSE, interval |-> 0]}

EditConfiguration(config) ==
    /\ config # configuration
    /\ configuration' = config
    /\ lastCall' = Called("edit", NoException)
    /\ UNCHANGED <<pc, ctl, now, calls>>
    /\ UNCHANGED schedulerVars
    /\ UNCHANGED pureVars
    /\ UNCHANGED utilsVars
    /\ UNCHANGED jiraVars
    /\ UNCHANGED pluginVars
    /\ UNCHANGED popupVars

\* the times schedule_first is called with
StartTimes ==
    { datetime(2020, 1, 1, 0, 0, 0, 0),
      datetime(2020, 1, 1, 0, 58, 30, 500000) }

Init ==
    /\ \E config \in Configurations : Constructed(config)
    /\ pc = "idle"
    /\ ctl = "none"
    /\ now = StartOfClock
    /\ calls = <<>>
    /\ lastCall = Called("__init__", NoException)
    /\ from_time = Unset
    /\ interval_in_minutes = 0
    /\ next_interval = Unset
    /\ form = None
    /\ entries = <<>>
    /\ inputs = StartUpInputs
    /\ outputs = StartUpOutputs
    /\ instances = Len(StartUp)
    /\ world = Unset
    /\ log = <<>>
    /\ returned = <<>>
    /\ text = <<>>
    /\ results = <<>>
    /\ total = InitialTotal
    /\ retries = 0
    /\ requests = <<>>

Next ==
    \/ \E schedule_at \in StartTimes : schedule_first(schedule_at)
    \/ schedule_first_default
    \/ RunFire
    \/ TrackerForm_action_wrapper
    \/ TrackerForm_close_form
    \/ ActionReturn
    \/ ActionRaise
    \/ RunExit
    \/ _cancel_next
    \/ _cancel_next_finish
    \/ Tick
    \/ \E config \in Configurations : EditConfiguration(config)

Spec == Init /\ [][Next]_vars

(***************************************************************************)
(* get_next_interval called directly, on inputs drawn from bounded sets    *)
(***************************************************************************)
InputDates ==
    { <<2020, 1, 1>>, <<2020, 2, 28>>, <<2020, 2, 29>>, <<2020, 12, 31>>,
      <<2021, 2, 28>>, <<2021, 12, 31>> }

InputTimes ==
    { datetime(d[1], d[2], d[3], h, m, s, us) :
        d \in InputDates, h \in {0, 23}, m \in 0..59, s \in {0, 59}, us \in {0, 999999} }

\* the divisors of 60, some other positive intervals, zero and a negative one
InputIntervals == {1, 2, 3, 4, 5, 6, 10, 12, 15, 20, 30, 60, 7, 45, 90, 0, -5}

InitInterval ==
    /\ Constructed([has_interval |-> TRUE, interval |-> 15])
    /\ pc = "idle"
    /\ ctl = "none"
    /\ now = StartOfClock
    /\ calls = <<>>
    /\ lastCall = Called("__init__", NoException)
    /\ from_time \in InputTimes
    /\ interval_in_minutes \in InputIntervals
    /\ next_interval = Unset
    /\ form = None
    /\ entries = <<>>
    /\ inputs = StartUpInputs
    /\ outputs = StartUpOutputs
    /\ instances = Len(StartUp)
    /\ world = Unset
    /\ log = <<>>
    /\ returned = <<>>
    /\ text = <<>>
    /\ results = <<>>
    /\ total = InitialTotal
    /\ retries = 0
    /\ requests = <<>>

CallGetNextInterval ==
    /\ next_interval = Unset
    /\ next_interval' = get_next_interval(from_time, interval_in_minutes)
    /\ lastCall' = Called("get_next_interval",
                          IF IsError(next_interval') THEN next_interval'.type
                          ELSE NoException)
    /\ UNCHANGED <<configuration, pc, ctl, now, calls,
                   from_time, interval_in_minutes>>
    /\ UNCHANGED schedulerVars
    /\ UNCHANGED popupVars
    /\ UNCHANGED pluginVars
    /\ UNCHANGED utilsVars
    /\ UNCHANGED jiraVars

NextInterval == CallGetNextInterval

SpecInterval == InitInterval /\ [][NextInterval]_vars

(***************************************************************************)
(* utils.pascal_to_snake on its own: one string, converted by direct calls *)
(***************************************************************************)
\* the characters of the strings tried: two uppercase letters, a lowercase
\* letter, a digit and the underscore
Alphabet == {"A", "B", "a", "1", "_"}

RECURSIVE Strings(_)
Strings(n) ==
    IF n = 0 THEN {<<>>}
    ELSE Strings(n - 1)
            \cup {Append(string, letter) :
                        string \in Strings(n - 1), letter \in Alphabet}

\* every string of at most MaxLength characters, and longer names
Texts ==
    Strings(MaxLength)
        \cup {<<"P", "a", "s", "c", "a", "l", "C", "a", "s", "e">>,
              <<"O", "u", "t", "l", "o", "o", "k", "C", "a", "l", "e", "n", "d", "a", "r">>,
              <<"H", "T", "T", "P">>,
              <<"_", "P", "r", "i", "v", "a", "t", "e", "_">>}

InitUtils ==
    /\ Constructed([has_interval |-> TRUE, interval |-> 15])
    /\ pc = "idle"
    /\ ctl = "none"
    /\ now = StartOfClock
    /\ calls = <<>>
    /\ lastCall = Called("__init__", NoException)
    /\ from_time = Unset
    /\ interval_in_minutes = 0
    /\ next_interval = Unset
    /\ form = None
    /\ entries = <<>>
    /\ inputs = StartUpInputs
    /\ outputs = StartUpOutputs
    /\ instances = Len(StartUp)
    /\ world = Unset
    /\ log = <<>>
    /\ returned = <<>>
    /\ text \in Texts
    /\ results = <<>>
    /\ total = InitialTotal
    /\ retries = 0
    /\ requests = <<>>

\* utils.pascal_to_snake(text)
CallPascalToSnake ==
    /\ returned' = pascal_to_snake(text)
    /\ lastCall' = Called("pascal_to_snake", NoException)
    /\ UNCHANGED <<inputs, outputs, instances, world, log>>
    /\ UNCHANGED <<configuration, pc, ctl, now, calls>>
    /\ UNCHANGED schedulerVars
    /\ UNCHANGED pureVars
    /\ UNCHANGED utilsVars
    /\ UNCHANGED jiraVars
    /\ UNCHANGED popupVars

NextUtils == CallPascalToSnake

SpecUtils == InitUtils /\ [][NextUtils]_vars

(***************************************************************************)
(* Jira.get_tickets_in_sprint on its own: one call, under any answers of   *)
(* Jira to the search requests                                             *)
(***************************************************************************)
InitJira ==
    /\ Constructed([has_interval |-> TRUE, interval |-> 15])
    /\ pc = "idle"
    /\ ctl = "none"
    /\ now = StartOfClock
    /\ calls = <<>>
    /\ lastCall = Called("__init__", NoException)
    /\ from_time = Unset
    /\ interval_in_minutes = 0
    /\ next_interval = Unset
    /\ form = None
    /\ entries = <<>>
    /\ inputs = StartUpInputs
    /\ outputs = StartUpOutputs
    /\ instances = Len(StartUp)
    /\ world = Unset
    /\ log = <<>>
    /\ returned = <<>>
    /\ text = <<>>
    /\ results = <<>>
    /\ total = InitialTotal
    /\ retries = 0
    /\ requests = <<>>

\* the call has not ended
InTheLoop == lastCall.op \in {"__init__", "get_batch_of_tickets"}

\* one pass of the while loop: ask for the batch at len(results), take its
\* total, add its tickets and count the pass; an exception of the request
\* that is not caught, or the KeyError of a body without total, leaves
\* get_tickets_in_sprint
Jira_while ==
    /\ InTheLoop
    /\ Len(results) < total /\ retries < MaxRetries
    /\ \E answer \in Responses(Len(results)) :
        LET response == get_batch_of_tickets(answer)
        IN  /\ requests' = Append(requests, Len(results))
            /\ IF response.raised # NoException
               THEN /\ lastCall' = Called("get_tickets_in_sprint", response.raised)
                    /\ UNCHANGED <<results, total, retries>>
               ELSE IF ~response.has_total
               THEN /\ lastCall' = Called("get_tickets_in_sprint", "KeyError")
                    /\ UNCHANGED <<results, total, retries>>
               ELSE /\ total' = response.total
                    /\ results' = results \o
                            [i \in DOMAIN response.issues |->
                                Ticket(response.issues[i])]
                    /\ retries' = retries + 1
                    /\ lastCall' = Called("get_batch_of_tickets", NoException)
    /\ UNCHANGED <<configuration, pc, ctl, now, calls>>
    /\ UNCHANGED schedulerVars
    /\ UNCHANGED pureVars
    /\ UNCHANGED utilsVars
    /\ UNCHANGED popupVars
    /\ UNCHANGED pluginVars

\* the loop has ended: return results
Jira_return ==
    /\ InTheLoop
    /\ ~(Len(results) < total /\ retries < MaxRetries)
    /\ returned' = results
    /\ lastCall' = Called("get_tickets_in_sprint", NoException)
    /\ UNCHANGED <<inputs, outputs, instances, world, log>>
    /\ UNCHANGED <<configuration, pc, ctl, now, calls>>
    /\ UNCHANGED schedulerVars
    /\ UNCHANGED pureVars
    /\ UNCHANGED utilsVars
    /\ UNCHANGED jiraVars
    /\ UNCHANGED popupVars

NextJira ==
    \/ Jira_while
    \/ Jira_return

SpecJira == InitJira /\ [][NextJira]_vars

(***************************************************************************)
(* The plugins on their own: classes are instantiated in any order, then   *)
(* one call of task collection, of a dispatch or of the default selection  *)
(* is made for a popup, under any answers of the outside.                  *)
(***************************************************************************)
\* the scheduled time and the interval of the popup
PopupTime == datetime(2020, 1, 1, 0, 15, 0, 0)

PopupInterval == 15

InitPlugins ==
    /\ Constructed([has_interval |-> TRUE, interval |-> PopupInterval])
    /\ pc = "idle"
    /\ ctl = "none"
    /\ now = StartOfClock
    /\ calls = <<>>
    /\ lastCall = Called("__init__", NoException)
    /\ from_time = Unset
    /\ interval_in_minutes = 0
    /\ next_interval = Unset
    /\ form = TrackerForm(PopupTime, PopupInterval)
    /\ entries = <<>>
    /\ inputs = <<>>
    /\ outputs = <<>>
    /\ instances = 0
    /\ world = Unset
    /\ log = <<>>
    /\ returned = <<>>
    /\ text = <<>>
    /\ results = <<>>
    /\ total = InitialTotal
    /\ retries = 0
    /\ requests = <<>>

\* cls(...): API.__new__ registers the new object
API_new(cls) ==
    /\ world = Unset
    /\ instances < MaxInstances
    /\ instances' = instances + 1
    /\ inputs' = Bound(inputs, "Input", Instance(cls, instances'))
    /\ outputs' = Bound(outputs, "Output", Instance(cls, instances'))
    /\ lastCall' = Called("__new__", NoException)
    /\ UNCHANGED <<world, log, returned>>
    /\ UNCHANGED <<configuration, pc, ctl, now, calls>>
    /\ UNCHANGED schedulerVars
    /\ UNCHANGED pureVars
    /\ UNCHANGED utilsVars
    /\ UNCHANGED jiraVars
    /\ UNCHANGED popupVars

\* Input.on_events(date_time)
Input_on_events ==
    /\ world = Unset
    /\ \E last_row \in LastRows, recent_tasks \in RecentTasks,
          tickets \in SprintTickets, appointments \in Appointments :
        LET rows == World(last_row, recent_tasks, tickets, 200, FALSE,
                          appointments)
            r == on_events(inputs, form.at_datetime, rows)
        IN  /\ world' = rows
            /\ log' = r.log
            /\ returned' = r.returned
            /\ lastCall' = Called("on_events", r.raised)
    /\ UNCHANGED <<inputs, outputs, instances>>
    /\ UNCHANGED <<configuration, pc, ctl, now, calls>>
    /\ UNCHANGED schedulerVars
    /\ UNCHANGED pureVars
    /\ UNCHANGED utilsVars
    /\ UNCHANGED jiraVars
    /\ UNCHANGED popupVars

\* ActionHandler.ok_actions()
ActionHandler_ok_actions ==
    /\ world = Unset
    /\ \E status_code \in HTTPStatuses :
        LET r == ok_actions(outputs, form, status_code)
        IN  /\ world' = World(None, <<>>, Returned(<<>>), status_code, FALSE, <<>>)
            /\ log' = r.log
            /\ returned' = <<>>
            /\ lastCall' = Called("ok_actions", r.raised)
    /\ UNCHANGED <<inputs, outputs, instances>>
    /\ UNCHANGED <<configuration, pc, ctl, now, calls>>
    /\ UNCHANGED schedulerVars
    /\ UNCHANGED pureVars
    /\ UNCHANGED utilsVars
    /\ UNCHANGED jiraVars
    /\ UNCHANGED popupVars

\* Output.post_events(entry), with the entry of the popup
Output_post_events ==
    /\ world = Unset
    /\ \E status_code \in HTTPStatuses :
        LET entry == Entry(form.at_datetime, FormTask, FormDetail, form.interval)
            r == post_events(outputs, entry, status_code)
        IN  /\ world' = World(None, <<>>, Returned(<<>>), status_code, FALSE, <<>>)
            /\ log' = r.log
            /\ returned' = <<>>
            /\ lastCall' = Called("post_events", r.raised)
    /\ UNCHANGED <<inputs, outputs, instances>>
    /\ UNCHANGED <<configuration, pc, ctl, now, calls>>
    /\ UNCHANGED schedulerVars
    /\ UNCHANGED pureVars
    /\ UNCHANGED utilsVars
    /\ UNCHANGED jiraVars
    /\ UNCHANGED popupVars

\* ActionHandler.get_default_task_and_detail(at_datetime), as generate_form
\* calls it
ActionHandler_get_default_task_and_detail ==
    /\ world = Unset
    /\ \E last_row \in LastRows, recent_tasks \in RecentTasks,
          tickets \in SprintTickets, use_calendar_appointments \in BOOLEAN,
          appointments \in Appointments :
        LET rows == World(last_row, recent_tasks, tickets, 200,
                          use_calendar_appointments, appointments)
            r == get_default_task_and_detail(inputs, outputs,
                                             form.at_datetime, rows)
        IN  /\ world' = rows
            /\ log' = <<>>
            /\ returned' = r.returned
            /\ lastCall' = Called("get_default_task_and_detail", r.raised)
    /\ UNCHANGED <<inputs, outputs, instances>>
    /\ UNCHANGED <<configuration, pc, ctl, now, calls>>
    /\ UNCHANGED schedulerVars
    /\ UNCHANGED pureVars
    /\ UNCHANGED utilsVars
    /\ UNCHANGED jiraVars
    /\ UNCHANGED popupVars

\* ActionHandler(at_datetime) of daily_tracker/_actions.py, the constructor
\* that builds its own handlers for every popup: the DatabaseHandler is
\* created, and API.__new__ registers it; get_linked_calendar is then handed
\* the name of the calendar where it expects the configuration, and reading
\* linked_calendar of a string raises AttributeError
ActionHandler_init ==
    /\ world = Unset
    /\ instances < MaxInstances
    /\ instances' = instances + 1
    /\ inputs' = Bound(inputs, "Input", Instance("DatabaseHandler", instances'))
    /\ outputs' = Bound(outputs, "Output", Instance("DatabaseHandler", instances'))
    /\ world' = World(None, <<>>, Returned(<<>>), 200, FALSE, <<>>)
    /\ lastCall' = Called("ActionHandler", "AttributeError")
    /\ UNCHANGED <<log, returned>>
    /\ UNCHANGED <<configuration, pc, ctl, now, calls>>
    /\ UNCHANGED schedulerVars
    /\ UNCHANGED pureVars
    /\ UNCHANGED utilsVars
    /\ UNCHANGED jiraVars
    /\ UNCHANGED popupVars

NextPlugins ==
    \/ \E cls \in PluginClasses : API_new(cls)
    \/ ActionHandler_init
    \/ Input_on_events
    \/ ActionHandler_ok_actions
    \/ Output_post_events
    \/ ActionHandler_get_default_task_and_detail

SpecPlugins == InitPlugins /\ [][NextPlugins]_vars

(***************************************************************************)
(* Properties of get_next_interval                                         *)
(***************************************************************************)
\* datetime comparison: field by field, most significant first
DateTimeTuple(dt) ==
    <<dt.year, dt.month, dt.day, dt.hour, dt.minute, dt.second, dt.microsecond>>

DateTimeBefore(a, b) ==
    \E i \in 1..7 :
        /\ DateTimeTuple(a)[i] < DateTimeTuple(b)[i]
        /\ \A j \in 1..(i - 1) : DateTimeTuple(a)[j] = DateTimeTuple(b)[j]

DT(year, month, day, hour, minute) ==
    [year |-> year, month |-> month, day |-> day, hour |-> hour,
     minute |-> minute, second |-> 0, microsecond |-> 0]

Divides60(i) == i > 0 /\ 60 % i = 0

WasCalled == next_interval # Unset

OnBoundary(dt, i) == dt.minute % i = 0 /\ dt.second = 0 /\ dt.microsecond = 0

\* The reference: addition of minutes by carrying from field to field.
RefDaysIn(year, month) ==
    IF month \in {4, 6, 9, 11} THEN 30
    ELSE IF month # 2 THEN 31
    ELSE IF year % 400 = 0 \/ (year % 4 = 0 /\ year % 100 # 0) THEN 29
    ELSE 28

RefNextDay(dt) ==
    IF dt.day < RefDaysIn(dt.year, dt.month) THEN [dt EXCEPT !.day = dt.day + 1]
    ELSE IF dt.month < 12 THEN [dt EXCEPT !.day = 1, !.month = dt.month + 1]
    ELSE [dt EXCEPT !.day = 1, !.month = 1, !.year = dt.year + 1]

RECURSIVE RefAddDays(_, _)
RefAddDays(dt, n) ==
    IF n = 0 THEN dt ELSE RefAddDays(RefNextDay(dt), n - 1)

RefAddMinutes(dt, n) ==
    LET minutes == dt.minute + n
        hours   == dt.hour + (minutes \div 60)
    IN  RefAddDays([dt EXCEPT !.minute = minutes % 60, !.hour = hours % 24],
                   hours \div 24)

\* the latest minute of the hour, not after dt, that is a multiple of i
RefTruncate(dt, i) ==
    LET k == CHOOSE m \in 0..dt.minute :
                /\ m % i = 0
                /\ \A l \in (m + 1)..dt.minute : l % i # 0
    IN  [dt EXCEPT !.minute = k, !.second = 0, !.microsecond = 0]

RefNextBoundary(dt, i) == RefAddMinutes(RefTruncate(dt, i), i)

\* C1: for every from_time and every positive interval that divides 60,
\* get_next_interval returns a datetime strictly later than from_time whose
\* minute is a multiple of the interval and whose second and microsecond are 0.
C1_NextIntervalLaterAndAligned ==
    (WasCalled /\ Divides60(interval_in_minutes)) =>
        /\ IsDateTime(next_interval)
        /\ DateTimeBefore(from_time, next_interval)
        /\ next_interval.minute % interval_in_minutes = 0
        /\ next_interval.second = 0
        /\ next_interval.microsecond = 0

\* a call off the boundary, with seconds and microseconds set, whose result
\* lies in the next hour
C1_Witness ==
    /\ WasCalled
    /\ Divides60(interval_in_minutes)
    /\ interval_in_minutes > 1
    /\ from_time.minute % interval_in_minutes # 0
    /\ from_time.second = 59
    /\ from_time.microsecond = 999999
    /\ IsDateTime(next_interval)
    /\ next_interval.minute = 0

\* C3: get_next_interval equals the reference (truncate to the latest multiple
\* of the interval within the hour, zero the seconds and microseconds, add the
\* interval as a duration), carrying into the next hour, day, month and year;
\* in particular on the four documented examples.
C3_EqualsReference ==
    /\ (WasCalled /\ interval_in_minutes > 0) =>
            next_interval = RefNextBoundary(from_time, interval_in_minutes)
    /\ get_next_interval(DT(2020, 1, 1, 0, 1), 15) = DT(2020, 1, 1, 0, 15)
    /\ get_next_interval(DT(2020, 1, 1, 0, 51), 10) = DT(2020, 1, 1, 1, 0)
    /\ get_next_interval(DT(2020, 1, 1, 0, 10), 3) = DT(2020, 1, 1, 0, 12)
    /\ get_next_interval(DT(2020, 1, 1, 23, 59), 1) = DT(2020, 1, 2, 0, 0)

\* a call whose result carries into the next year
C3_Witness ==
    /\ WasCalled
    /\ interval_in_minutes > 0
    /\ IsDateTime(next_interval)
    /\ next_interval.year = from_time.year + 1
    /\ next_interval.month = 1
    /\ next_interval.day = 1

\* C4: from a time exactly on a boundary, get_next_interval returns that time
\* plus the interval.
C4_BoundaryPlusInterval ==
    (/\ WasCalled
     /\ interval_in_minutes > 0
     /\ OnBoundary(from_time, interval_in_minutes)) =>
        next_interval = RefAddMinutes(from_time, interval_in_minutes)

\* a call on a boundary other than the top of the hour
C4_Witness ==
    /\ WasCalled
    /\ interval_in_minutes > 1
    /\ OnBoundary(from_time, interval_in_minutes)
    /\ from_time.minute # 0
    /\ next_interval = RefAddMinutes(from_time, interval_in_minutes)

(***************************************************************************)
(* Properties of IndefiniteScheduler                                       *)
(***************************************************************************)
FairSpec == Spec /\ WF_vars(RunExit)

Pending == queue # {}

\* the step is the normal return of an action followed by a successful re-arm
Rearmed == pc = "action" /\ pc' = "run"

\* C2: after every firing whose action returns normally exactly one next
\* firing is registered, at get_next_interval(previous scheduled time,
\* interval), whatever the wall clock shows; the firing itself hands the
\* scheduled time to the action (00:00 with 15 gives 00:15, then 00:30).
C2_RearmFromPreviousScheduledTime ==
    /\ [][Rearmed =>
            LET previous == calls[Len(calls)]
                next     == get_next_interval(previous, _interval')
            IN  /\ _next_schedule_time' = next
                /\ queue' = {_next_event'}
                /\ _next_event'.time = timestamp(next)
                /\ ((previous = DT(2020, 1, 1, 0, 15) /\ _interval' = 15)
                        => next = DT(2020, 1, 1, 0, 30))]_vars
    /\ [][(pc = "run" /\ pc' = "action") =>
            /\ calls' = Append(calls, _next_schedule_time)
            /\ timestamp(_next_schedule_time) \in {e.time : e \in queue}
            /\ queue' = {}]_vars
    /\ get_next_interval(DT(2020, 1, 1, 0, 0), 15) = DT(2020, 1, 1, 0, 15)

\* the action of the 00:15 firing has just returned, after 00:30, and the
\* firing registered is the one of 00:30
C2_Witness ==
    /\ lastCall = Called("_action_wrapper", NoException)
    /\ calls = <<DT(2020, 1, 1, 0, 15)>>
    /\ _interval = 15
    /\ _next_schedule_time = DT(2020, 1, 1, 0, 30)
    /\ queue = {_next_event}
    /\ _next_event.time = timestamp(DT(2020, 1, 1, 0, 30))
    /\ now > timestamp(DT(2020, 1, 1, 0, 30))

\* C5: when an action returns, the interval is read from the configuration as
\* it is then, and the next firing is computed with it.
C5_IntervalRereadAfterFiring ==
    [][(pc = "action" /\ lastCall'.op = "_action_wrapper") =>
            /\ _interval' = Configuration_interval(configuration)
            /\ (pc' = "run" =>
                    _next_schedule_time' =
                        get_next_interval(_next_schedule_time,
                                          Configuration_interval(configuration)))]_vars

\* the interval was 15 for the firing of 00:15, was edited to 1 before the
\* action returned, and the next firing is at 00:16
C5_Witness ==
    /\ pc = "run"
    /\ calls = <<DT(2020, 1, 1, 0, 15)>>
    /\ configuration = [has_interval |-> TRUE, interval |-> 1]
    /\ _interval = 1
    /\ _next_schedule_time = DT(2020, 1, 1, 0, 16)
    /\ Pending

\* C6 as stated: schedule_first on a running scheduler fails with an
\* AlreadyRunningError and changes nothing.
C6_FailsWithAlreadyRunningError ==
    [][(_running /\ lastCall'.op = "schedule_first") =>
            /\ lastCall'.raised = "AlreadyRunningError"
            /\ UNCHANGED <<schedulerVars, pc>>]_vars

\* C6 amended: schedule_first on a running scheduler fails with an
\* AssertionError and changes nothing: still running, the same pending firing.
C6_FailsWithAssertionError ==
    [][(_running /\ lastCall'.op = "schedule_first") =>
            /\ lastCall'.raised = "AssertionError"
            /\ UNCHANGED <<schedulerVars, pc>>]_vars

\* schedule_first has just failed on a scheduler with one pending firing
C6_Witness ==
    /\ lastCall = Called("schedule_first", "AssertionError")
    /\ _running
    /\ pc = "run"
    /\ Cardinality(queue) = 1
    /\ _next_event \in queue

\* C7: _cancel_next with a firing pending removes the firing and makes the
\* scheduler idle; while it is idle the action is not invoked; the run loop
\* returns.
C7_CancelRemovesPendingFiring ==
    /\ [][(Pending /\ ctl = "none" /\ lastCall'.op = "_cancel_next") =>
            /\ lastCall'.raised = NoException
            /\ ~Pending'
            /\ _next_event' = None
            /\ ctl' = "cancelling"]_vars
    /\ [][(ctl = "cancelling" /\ ctl' = "none") => (~_running' /\ ~Pending')]_vars
    /\ [][(~_running /\ ~_running') => (calls' = calls /\ ~Pending')]_vars
    /\ ((ctl = "cancelling") ~> (pc = "idle"))

\* the scheduler was stopped with a firing pending, after one firing, and the
\* run loop has returned
C7_Witness ==
    /\ lastCall = Called("run", NoException)
    /\ pc = "idle"
    /\ ~_running
    /\ _next_event = None
    /\ ~Pending
    /\ Len(calls) = 1
    /\ IsDateTime(_next_schedule_time)

\* C8 as stated: _cancel_next on an idle scheduler raises nothing and leaves
\* it idle.
C8_CancelWhenIdleIsNoOp ==
    [][(~_running /\ ctl = "none" /\ lastCall'.op = "_cancel_next") =>
            /\ lastCall'.raised = NoException
            /\ ~_running'
            /\ ~Pending']_vars

\* the scheduler is dead: schedule_first has ended with an exception, nothing
\* is pending, and the scheduler still counts as running
Dead == pc = "idle" /\ ctl = "none" /\ _running /\ ~Pending

\* C9: an exception of the action leaves schedule_first; the interval is not
\* re-read, no firing is registered, and the action is never invoked again.
C9_ActionExceptionIsFatal ==
    /\ [][(pc = "action" /\ lastCall'.op = "action") =>
            /\ lastCall'.raised = "Exception"
            /\ pc' = "idle"
            /\ UNCHANGED schedulerVars
            /\ Dead']_vars
    /\ [][Dead => (Dead' /\ calls' = calls)]_vars

\* the action raised after the interval had been edited
C9_Witness ==
    /\ lastCall = Called("action", "Exception")
    /\ Dead
    /\ Len(calls) >= 1
    /\ Configuration_interval(configuration) # _interval

\* C10 as stated: with an interval that is zero, negative or missing no
\* firing is ever pending.
C10_InvalidIntervalNeverArms == (_interval <= 0) => ~Pending

\* C11: the scheduler holds at most one pending firing, none while an action
\* is executing, and an action begins only when no other action is executing
\* (the previous one has returned), so no two firings overlap.
C11_NoOverlappingFirings ==
    /\ [](Cardinality(queue) <= 1 /\ (pc = "action" => ~Pending))
    /\ [][calls' # calls =>
            /\ pc = "run"
            /\ pc' = "action"
            /\ Len(calls') = Len(calls) + 1]_vars

\* the second firing is executing, after the first one returned and re-armed
C11_Witness ==
    /\ pc = "action"
    /\ Len(calls) = 2
    /\ calls[1] # calls[2]
    /\ ~Pending

\* C12 as stated: schedule_first called without an initial time registers the
\* first firing at the next boundary after the wall-clock time of the call.
C12_DefaultIsTimeOfCall ==
    [][(lastCall'.op = "schedule_first_default"
            /\ lastCall'.raised = NoException) =>
        _next_schedule_time' = get_next_interval(fromtimestamp(now), _interval)]_vars

\* C20: every entry dispatched for a firing carries the scheduled time of
\* that firing, the datetime the scheduler handed to the action, whatever the
\* wall clock shows when the popup is confirmed.
C20_EntryCarriesScheduledTime ==
    /\ [](entries # <<>> =>
            /\ pc = "action"
            /\ \A i \in DOMAIN entries :
                    entries[i].date_time = calls[Len(calls)])
    /\ [][lastCall'.op = "action_wrapper" =>
            \A i \in DOMAIN entries' :
                entries'[i].date_time = _next_schedule_time]_vars

\* the popup was confirmed half an hour after the scheduled time of its firing
C20_Witness ==
    /\ lastCall = Called("action_wrapper", NoException)
    /\ Len(entries) = 1
    /\ entries[1].date_time = DT(2020, 1, 1, 0, 15)
    /\ now = timestamp(DT(2020, 1, 1, 0, 15)) + 15 * 60

\* the call under examination was a dispatch of the entry of the popup
Dispatched == lastCall.op \in {"ok_actions", "post_events"}

\* C13 as stated: whatever the registration order and the dispatch path, no
\* consumer is invoked before the database consumer.
C13_DatabaseConsumerFirst ==
    Dispatched =>
        \A i \in DOMAIN log : log[i].handler.cls = "Database" => i = 1

\* the exception of the invocation a dispatch made, under the answers of
\* the outside during the call
Failed(invocation) ==
    post_event(invocation.handler, invocation.argument, world.status_code)
        # NoException

\* the consumer of a registry item was invoked by the call
Invoked(item) == \E i \in DOMAIN log : log[i].handler = item.value

\* C14 as stated: when the post_event of a consumer fails during a dispatch,
\* every registered consumer is still invoked and the dispatch does not
\* raise.
C14_ConsumerFailureIsolated ==
    (Dispatched /\ \E i \in DOMAIN log : Failed(log[i])) =>
        /\ lastCall.raised = NoException
        /\ \A item \in Items(outputs) : Invoked(item)

\* what the on_event of the i-th registered producer does for the popup
Produced(i) == on_event(inputs[i].value, form.at_datetime, world)

\* the tasks of the producers that return, in registration order
TasksOfReturning == chain([i \in DOMAIN inputs |-> Produced(i).returned])

\* C15 as stated: when the on_event of a producer raises, on_events still
\* returns the tasks of every other registered producer.
C15_ProducerFailureIsolated ==
    (lastCall.op = "on_events"
        /\ \E i \in DOMAIN inputs : Produced(i).raised # NoException) =>
        /\ lastCall.raised = NoException
        /\ returned = TasksOfReturning

\* the number of tasks of the producers registered before the i-th
RECURSIVE TasksBefore(_)
TasksBefore(i) ==
    IF i = 1 THEN 0 ELSE TasksBefore(i - 1) + Len(Produced(i - 1).returned)

C17_MergedByName ==
    (lastCall.op = "on_events" /\ lastCall.raised = NoException) =>
        \A i, j \in DOMAIN returned :
            returned[i].task_name = returned[j].task_name => i = j

\* the first task of a list that satisfies a condition, as (task, detail)
FirstDetail(task) == IF task.details = <<>> THEN "" ELSE task.details[1]

FirstWhere(tasks, Condition(_)) ==
    LET i == CHOOSE i \in DOMAIN tasks :
                /\ Condition(tasks[i])
                /\ \A j \in 1..(i - 1) : ~Condition(tasks[j])
    IN  <<tasks[i].task_name, FirstDetail(tasks[i])>>

\* the selection among collected tasks: the task with priority 0 if there is
\* one, else the first task flagged is_default, else empty
Selected(tasks) ==
    IF \E i \in DOMAIN tasks : tasks[i].priority = 0
    THEN FirstWhere(tasks, LAMBDA task : task.priority = 0)
    ELSE IF \E i \in DOMAIN tasks : tasks[i].is_default
    THEN FirstWhere(tasks, LAMBDA task : task.is_default)
    ELSE <<"", "">>

C19_EveryConsumerInvokedOnce ==
    Dispatched =>
        /\ \A item \in Items(outputs) :
                Cardinality({i \in DOMAIN log : log[i].handler = item.value}) = 1
        /\ \A i \in DOMAIN log :
                log[i].argument =
                    Entry(form.at_datetime, FormTask, FormDetail, form.interval)

(***************************************************************************)
(* Registration                                                            *)
(***************************************************************************)
\* cls derives directly from base
DerivesFrom(cls, base) == \E i \in DOMAIN Bases(cls) : Bases(cls)[i] = base

\* instance is bound under some key of apis
RegisteredIn(apis, instance) == \E item \in Items(apis) : item.value = instance

\* the object that the last call of a class created
Newest(cls) == Instance(cls, instances)

\* C21: the object created by instantiating a plugin class is bound, under
\* the snake-case name of the class, in Input.apis exactly when the class
\* derives from Input and in Output.apis exactly when it derives from
\* Output: one object under one key in both for a class deriving from both,
\* and neither the object nor the key in the registry of a base the class
\* does not derive from.
C21_RegisteredInTheRegistriesOfItsBases ==
    (lastCall.op = "__new__") =>
        \E cls \in PluginClasses :
            LET key == Key(cls)
            IN  /\ RegisteredIn(inputs, Newest(cls))
                    \/ RegisteredIn(outputs, Newest(cls))
                /\ IF DerivesFrom(cls, "Input")
                   THEN Get(inputs, key) = Newest(cls)
                   ELSE /\ ~RegisteredIn(inputs, Newest(cls))
                        /\ key \notin Keys(inputs)
                /\ IF DerivesFrom(cls, "Output")
                   THEN Get(outputs, key) = Newest(cls)
                   ELSE /\ ~RegisteredIn(outputs, Newest(cls))
                        /\ key \notin Keys(outputs)

\* a producer that is no consumer and a consumer that is no producer have
\* been created, then a class that is both: its object is in both registries
C21_Witness ==
    /\ lastCall.op = "__new__"
    /\ Get(inputs, "database") = Newest("Database")
    /\ Get(outputs, "database") = Newest("Database")
    /\ "outlook" \in Keys(inputs) /\ "outlook" \notin Keys(outputs)
    /\ "slack" \in Keys(outputs) /\ "slack" \notin Keys(inputs)

\* C22 as stated: once the plugin classes have been instantiated at
\* start-up, nothing adds a key to Input.apis or Output.apis, removes one or
\* binds one to another object.
C22_RegistriesFrozenAfterStartUp ==
    [][(lastCall'.op # "__new__") =>
            (inputs' = inputs /\ outputs' = outputs)]_vars

(***************************************************************************)
(* The key of a plugin                                                     *)
(***************************************************************************)
\* the number of uppercase letters among the first i characters
UpperUpTo(string, i) == Cardinality({j \in 1..i : isupper(string[j])})

\* where the i-th character of the text stands in a conversion that dropped
\* k characters at its front
Place(i, k) == i + UpperUpTo(text, i) - k

\* C23: pascal_to_snake returns for every string, without raising, a string
\* with no uppercase letter and no underscore at either end, in which every
\* character of the text other than an underscore at an end stands in
\* lowercase and in order, every letter that was uppercase directly after
\* an inserted underscore unless that underscore would lead the result;
\* "PascalCase" gives "pascal_case" and "OutlookCalendar" gives
\* "outlook_calendar".
C23_KeyIsSnakeCaseOfTheName ==
    (lastCall.op = "pascal_to_snake") =>
        /\ lastCall.raised = NoException
        /\ \A p \in DOMAIN returned : ~isupper(returned[p])
        /\ returned # <<>> =>
                (returned[1] # "_" /\ returned[Len(returned)] # "_")
        /\ \E k \in 0..(2 * Len(text)) :
                /\ \A i \in DOMAIN text :
                        /\ text[i] # "_" => Place(i, k) \in DOMAIN returned
                        /\ Place(i, k) \in DOMAIN returned =>
                                returned[Place(i, k)] = lower(text[i])
                        /\ (isupper(text[i])
                                /\ Place(i, k) - 1 \in DOMAIN returned) =>
                                returned[Place(i, k) - 1] = "_"
                /\ \A p \in DOMAIN returned :
                        \E i \in DOMAIN text :
                            \/ Place(i, k) = p
                            \/ isupper(text[i]) /\ Place(i, k) - 1 = p
        /\ text = <<"P", "a", "s", "c", "a", "l", "C", "a", "s", "e">> =>
                returned = <<"p", "a", "s", "c", "a", "l", "_", "c", "a", "s", "e">>
        /\ text = <<"O", "u", "t", "l", "o", "o", "k", "C", "a", "l", "e", "n", "d", "a", "r">> =>
                returned = <<"o", "u", "t", "l", "o", "o", "k", "_", "c", "a", "l", "e", "n", "d", "a", "r">>

\* a name of two words has been converted: the underscore of the first
\* word is dropped and that of the second is kept
C23_Witness ==
    /\ lastCall.op = "pascal_to_snake"
    /\ text = <<"P", "a", "s", "c", "a", "l", "C", "a", "s", "e">>
    /\ returned = <<"p", "a", "s", "c", "a", "l", "_", "c", "a", "s", "e">>

(***************************************************************************)
(* The default of the popup and the linked calendar                        *)
(***************************************************************************)
\* a calendar is linked and registered: Outlook, not the NoCalendar that
\* stands for no calendar
CalendarRegistered == \E item \in Items(inputs) : item.value.cls = "Outlook"

\* the appointments at the time of the popup that are not all-day and have
\* no excluded category
Meetings ==
    SelectSeq(world.appointments,
              LAMBDA meeting : ~meeting.all_day_event /\ ~meeting.excluded)

\* C24 as stated: get_default_task_and_detail returns ("Meetings", subject)
\* when a calendar is linked and registered, calendar appointments are
\* enabled and exactly one appointment qualifies; otherwise the last task
\* and detail of the database, or ("", "") when there is none.
C24_MeetingOrLastTask ==
    (lastCall = Called("get_default_task_and_detail", NoException)) =>
        IF /\ CalendarRegistered
           /\ world.use_calendar_appointments
           /\ Len(Meetings) = 1
        THEN returned = <<"Meetings", Meetings[1].subject>>
        ELSE IF world.last_row # None
        THEN returned = <<world.last_row.task, world.last_row.detail>>
        ELSE returned = <<"", "">>

\* C25 as stated: with no consumer registered under "database",
\* ok_actions does not raise and invokes post_event on every registered
\* consumer.
C25_DispatchWithoutDatabase ==
    (lastCall.op = "ok_actions" /\ "database" \notin Keys(outputs)) =>
        /\ lastCall.raised = NoException
        /\ \A item \in Items(outputs) :
                \E i \in DOMAIN log :
                    /\ log[i].handler = item.value
                    /\ log[i].method = "post_event"

(***************************************************************************)
(* The order of the firings                                                *)
(***************************************************************************)
\* C26: whenever the interval read for a re-arm is positive, whether or not
\* it divides 60 and whatever it was before, the firing registered is
\* strictly later than the one whose action has just returned, and each
\* firing hands its action the time it was registered for: the timestamps
\* of successive invocations increase strictly.
C26_TimestampsStrictlyIncreasing ==
    /\ [][(Rearmed /\ _interval' > 0) =>
            /\ IsDateTime(_next_schedule_time')
            /\ DateTimeBefore(calls[Len(calls)], _next_schedule_time')]_vars
    /\ [][(pc = "run" /\ pc' = "action") =>
            calls'[Len(calls')] = _next_schedule_time]_vars

\* the interval was changed to 45, which does not divide 60, between two
\* firings, and the second firing came later than the first
C26_Witness ==
    /\ Len(calls) = 2
    /\ pc = "action"
    /\ _interval = 45
    /\ calls[1] = DT(2020, 1, 1, 0, 15)
    /\ calls[2] = DT(2020, 1, 1, 0, 45)

(***************************************************************************)
(* The running flag                                                        *)
(***************************************************************************)
\* C27 as stated: with a valid interval and no _cancel_next under way,
\* _running is true exactly when a firing is pending or an action is
\* executing; in particular it is false once the run loop has ended
\* because the action raised.
C27_RunningIffPendingOrExecuting ==
    (ctl = "none" /\ _interval > 0) =>
        (_running <=> (Pending \/ pc = "action"))

\* C28 as stated: a _cancel_next called while the action of a firing is
\* executing raises nothing.
C28_CancelDuringActionCompletes ==
    [][(pc = "action" /\ _interval > 0 /\ lastCall'.op = "_cancel_next") =>
            lastCall'.raised = NoException]_vars

(***************************************************************************)
(* A popup that is cancelled                                               *)
(***************************************************************************)
\* C29: the Cancel button closes the popup and hands no entry to any
\* consumer, so a firing whose popup is cancelled without OK writes none;
\* when the action then returns the interval is re-read and the next firing
\* is registered at get_next_interval of the time of the cancelled firing,
\* as after a confirmed popup.
C29_CancelledPopupWritesNothing ==
    /\ [][(lastCall'.op = "close_form") =>
            /\ ~form'.open
            /\ entries' = entries
            /\ log' = log]_vars
    /\ [][(lastCall.op = "close_form" /\ Rearmed) =>
            LET next == get_next_interval(calls[Len(calls)],
                                          Configuration_interval(configuration))
            IN  /\ _next_schedule_time' = next
                /\ queue' = {_next_event'}
                /\ _next_event'.time = timestamp(next)]_vars

\* the popup of the 00:15 firing has been cancelled with nothing written
C29_Witness ==
    /\ lastCall.op = "close_form"
    /\ pc = "action"
    /\ calls = <<DT(2020, 1, 1, 0, 15)>>
    /\ ~form.open
    /\ entries = <<>>

(***************************************************************************)
(* The tickets of the sprint                                               *)
(***************************************************************************)
\* C30 as stated: whatever the answers to its requests, failed requests
\* among them, get_tickets_in_sprint ends after at most 5 requests and
\* returns the tickets gathered so far, the first batch asked for at 0 and
\* every batch at the number of tickets gathered before it.
C30_ReturnsTicketsWithinFiveRequests ==
    (lastCall.op = "get_tickets_in_sprint") =>
        /\ lastCall.raised = NoException
        /\ Len(requests) <= MaxRetries
        /\ returned = results
        /\ requests # <<>> => requests[1] = 0
        /\ \A i \in DOMAIN requests : requests[i] <= Len(results)

====
